---- MODULE Spec2Model ----
(***************************************************************************)
(* A model of the industrial-robots crate: the FANUC joint-angle           *)
(* convention (fanuc.rs), the LR Mate 200iD chain object (robot.rs) and    *)
(* the CRX kinematics (fanuc/crx.rs).                                      *)
(*                                                                         *)
(* Numbers.  f64 values are modelled in fixed point.  An angle in degrees  *)
(* is an integer count of 1/DegScale degree, an angle in radians an        *)
(* integer count of 1/RadScale radian, and every unit conversion rounds to *)
(* the nearest representable value, as the f64 multiplication does.        *)
(* Lengths are integer millimetres.  Joint angles given to the kinematics  *)
(* are whole quarter turns, for which sine and cosine are exactly 0, 1 or  *)
(* -1, so that rotations are integer matrices and every frame is exact.    *)
(***************************************************************************)
EXTENDS Integers, Sequences, FiniteSets, TLC

VARIABLES
    positions,  \* FanucLrMate200id.chain: the joint positions the chain holds (radians)
    op,         \* the operation called last ("none" after construction)
    arg,        \* the argument that call was given
    ret,        \* what that call gave back: [kind |-> "ok" | "panic", val |-> ...]
    crx,        \* the Crx that was built: "5ia" or "10ia"
    solverOut,  \* the request the last Crx::ik call made of the solver, and its answer
    printed     \* what the last call wrote to standard output

vars == <<positions, op, arg, ret, crx, solverOut, printed>>

----------------------------------------------------------------------------
(* Fixed-point numbers *)

\* units per degree
DegScale == 10
\* units per radian
RadScale == 500
\* pi as the fraction PiNum / PiDen
PiNum == 355
PiDen == 113

Abs(a) == IF a < 0 THEN -a ELSE a

\* a / b rounded to the nearest integer (b > 0)
RoundDiv(a, b) == (2 * a + b) \div (2 * b)

\* f64::to_radians: the value times pi/180, rounded
to_radians(d) == RoundDiv(d * PiNum * RadScale, 180 * PiDen * DegScale)

\* f64::to_degrees: the value times 180/pi, rounded
to_degrees(r) == RoundDiv(r * 180 * PiDen * DegScale, PiNum * RadScale)

\* a whole number of degrees as a controller value
Deg(n) == n * DegScale

----------------------------------------------------------------------------
(* Outcomes of a call *)

Ok(v) == [kind |-> "ok", val |-> v]
\* an index out of bounds ends the program
Panic == [kind |-> "panic", val |-> <<>>]
Unit == <<>>

Zero6 == <<0, 0, 0, 0, 0, 0>>

----------------------------------------------------------------------------
(* fanuc.rs: the joint angle convention *)

\* the loop of joints_to_rad: element i of the slice, in radians, is written
\* to element i of a zeroed array of six
FillRadians(joints) ==
    LET At(i) == IF i <= Len(joints) THEN to_radians(joints[i]) ELSE 0
    IN  <<At(1), At(2), At(3), At(4), At(5), At(6)>>

\* the loop of rad_to_joints: the same in degrees
FillDegrees(rad_joints) ==
    LET At(i) == IF i <= Len(rad_joints) THEN to_degrees(rad_joints[i]) ELSE 0
    IN  <<At(1), At(2), At(3), At(4), At(5), At(6)>>

\* the conversion of the units alone, J3 left as displayed
joints_to_rad_uncoupled(joints) ==
    IF Len(joints) > 6 THEN Panic
    ELSE Ok(FillRadians(joints))

\* the coupling written into J2 instead of J3
joints_to_rad_into_j2(joints) ==
    IF Len(joints) > 6 THEN Panic
    ELSE LET rad_joints == FillRadians(joints)
         IN  Ok([rad_joints EXCEPT ![2] = rad_joints[2] + rad_joints[3]])

joints_to_rad(joints) ==
    IF Len(joints) > 6 THEN Panic
    ELSE LET rad_joints == FillRadians(joints)
         IN  Ok([rad_joints EXCEPT ![3] = rad_joints[3] + rad_joints[2]])

\* the coupling added again instead of taken back out
rad_to_joints_adding(rad_joints) ==
    IF Len(rad_joints) > 6 THEN Panic
    ELSE LET joints == FillDegrees(rad_joints)
         IN  Ok([joints EXCEPT ![3] = joints[3] + joints[2]])

rad_to_joints(rad_joints) ==
    IF Len(rad_joints) > 6 THEN Panic
    ELSE LET joints == FillDegrees(rad_joints)
         IN  Ok([joints EXCEPT ![3] = joints[3] - joints[2]])

(* robot.rs: the same conversion, private to the LR Mate *)
fanuc_joints_to_rad(joints) ==
    IF Len(joints) > 6 THEN Panic
    ELSE LET rad_joints == FillRadians(joints)
         IN  Ok([rad_joints EXCEPT ![3] = rad_joints[3] + rad_joints[2]])

----------------------------------------------------------------------------
(* nalgebra: vectors, rotations and isometries *)

Vec(x, y, z) == <<x, y, z>>
VecAdd(a, b) == <<a[1] + b[1], a[2] + b[2], a[3] + b[3]>>
VecNeg(a) == <<-a[1], -a[2], -a[3]>>
\* a vector times a scalar
VecScale(a, k) == <<a[1] * k, a[2] * k, a[3] * k>>
Dot(a, b) == a[1] * b[1] + a[2] * b[2] + a[3] * b[3]

Identity3 == <<<<1, 0, 0>>, <<0, 1, 0>>, <<0, 0, 1>>>>
\* column j of a 3 x 3 matrix
Col3(A, j) == <<A[1][j], A[2][j], A[3][j]>>
Transpose(A) == <<Col3(A, 1), Col3(A, 2), Col3(A, 3)>>
MatVec(A, v) == <<Dot(A[1], v), Dot(A[2], v), Dot(A[3], v)>>
\* row i of the product is row i of A applied to the columns of B
MatMul(A, B) ==
    LET Bt == Transpose(B)
    IN  <<MatVec(Bt, A[1]), MatVec(Bt, A[2]), MatVec(Bt, A[3])>>
\* the cross-product matrix of v
Skew(v) == <<<<0, -v[3], v[2]>>, <<v[3], 0, -v[1]>>, <<-v[2], v[1], 0>>>>

\* the integer square root, by bisection on lo..hi
RECURSIVE SqrtIn(_, _, _)
SqrtIn(n, lo, hi) ==
    IF lo >= hi THEN lo
    ELSE LET mid == (lo + hi + 1) \div 2
         IN  IF mid * mid <= n THEN SqrtIn(n, mid, hi) ELSE SqrtIn(n, lo, mid - 1)
\* sqrt(n) rounded to the nearest integer
Sqrt(n) ==
    LET f == SqrtIn(n, 0, 40000)
    IN  IF n - f * f > f THEN f + 1 ELSE f

\* the number of quarter turns nearest to an angle in radians
Quarter(q) == RoundDiv(q * 2 * PiDen, PiNum * RadScale)
Cos(q) == LET k == Quarter(q) % 4
          IN  CASE k = 0 -> 1 [] k = 1 -> 0 [] k = 2 -> -1 [] k = 3 -> 0
Sin(q) == LET k == Quarter(q) % 4
          IN  CASE k = 0 -> 0 [] k = 1 -> 1 [] k = 2 -> 0 [] k = 3 -> -1

\* UnitQuaternion::new(axisangle): the rotation about the direction of v by
\* the angle |v| (Rodrigues' formula); the identity for the zero vector
RotationOf(v) ==
    LET n2 == Dot(v, v)
        theta == Sqrt(n2)
        c == Cos(theta)
        s == Sin(theta)
        K == Skew(v)
        E(i, j) == c * Identity3[i][j]
                   + ((1 - c) * v[i] * v[j]) \div n2
                   + (s * K[i][j]) \div theta
    IN  IF n2 = 0 THEN Identity3
        ELSE << <<E(1, 1), E(1, 2), E(1, 3)>>,
                <<E(2, 1), E(2, 2), E(2, 3)>>,
                <<E(3, 1), E(3, 2), E(3, 3)>> >>

\* Isometry3: a rotation and a translation
Iso(R, t) == [rot |-> R, trans |-> t]
IsoIdentity == Iso(Identity3, Vec(0, 0, 0))
\* a * b: b applied first
IsoMul(a, b) == Iso(MatMul(a.rot, b.rot), VecAdd(a.trans, MatVec(a.rot, b.trans)))
IsoInverse(a) == Iso(Transpose(a.rot), VecNeg(MatVec(Transpose(a.rot), a.trans)))
\* Isometry3::rotation(axisangle)
IsoRotation(v) == Iso(RotationOf(v), Vec(0, 0, 0))
\* Isometry3::from_parts(translation, rotation)
IsoFromParts(t, R) == Iso(R, t)

----------------------------------------------------------------------------
(* poses.rs: the controller pose (x, y, z, w, p, r), millimetres and degrees *)

XyzWpr_new(x, y, z, w, p, r) == [x |-> x, y |-> y, z |-> z, w |-> w, p |-> p, r |-> r]

\* the elemental rotations composed in the controller's order: W about X,
\* then P about Y, then R about Z, all about the fixed axes
XyzWpr_to_isometry(pose) ==
    Iso(MatMul(RotationOf(Vec(0, 0, to_radians(pose.r))),
               MatMul(RotationOf(Vec(0, to_radians(pose.p), 0)),
                      RotationOf(Vec(to_radians(pose.w), 0, 0)))),
        Vec(pose.x, pose.y, pose.z))

\* atan2(y, x) in degrees for a point on an axis
Atan2Deg(y, x) ==
    CASE x > 0 /\ y = 0 -> Deg(0)
      [] y > 0 /\ x = 0 -> Deg(90)
      [] x < 0 /\ y = 0 -> Deg(180)
      [] y < 0 /\ x = 0 -> Deg(-90)
      [] OTHER -> Deg(0)

\* the decomposition into the angle triple; at p = +/-90 degrees, where w and
\* r are not separately determined, r is fixed to zero
XyzWpr_from_isometry(iso) ==
    LET R == iso.rot
        wpr == CASE R[3][1] = 0  -> <<Atan2Deg(R[3][2], R[3][3]), Deg(0), Atan2Deg(R[2][1], R[1][1])>>
                 [] R[3][1] < 0  -> <<Atan2Deg(R[1][2], R[1][3]), Deg(90), Deg(0)>>
                 [] R[3][1] > 0  -> <<Atan2Deg(-R[1][2], -R[1][3]), Deg(-90), Deg(0)>>
    IN  XyzWpr_new(iso.trans[1], iso.trans[2], iso.trans[3], wpr[1], wpr[2], wpr[3])

\* the angle of a rotation, in degrees, from its trace 1 + 2 cos(angle)
RotationAngle(R) ==
    LET tr == R[1][1] + R[2][2] + R[3][3]
    IN  CASE tr = 3 -> Deg(0) [] tr = 1 -> Deg(90) [] tr = 0 -> Deg(120) [] OTHER -> Deg(180)

\* the distance between two points, rounded
Distance(a, b) ==
    LET d == VecAdd(a, VecNeg(b)) IN Sqrt(Dot(d, d))

\* a comparison of the six numbers one by one
XyzWpr_approx_eq_by_angles(a, b, epsilon) ==
    /\ Abs(a.x - b.x) <= epsilon /\ Abs(a.y - b.y) <= epsilon /\ Abs(a.z - b.z) <= epsilon
    /\ Abs(a.w - b.w) <= epsilon /\ Abs(a.p - b.p) <= epsilon /\ Abs(a.r - b.r) <= epsilon

\* equal when the positions are within epsilon and the rotation from one
\* orientation to the other turns by no more than epsilon
XyzWpr_approx_eq(a, b, epsilon) ==
    LET ia == XyzWpr_to_isometry(a)
        ib == XyzWpr_to_isometry(b)
    IN  /\ Distance(ia.trans, ib.trans) <= epsilon
        /\ RotationAngle(MatMul(Transpose(ia.rot), ib.rot)) <= epsilon

----------------------------------------------------------------------------
(* robot.rs: the LR Mate 200iD as a chain of the k crate *)

x_axis == Vec(1, 0, 0)
y_axis == Vec(0, 1, 0)
z_axis == Vec(0, 0, 1)

\* a joint without a range
NoLimits == [has |-> FALSE, min |-> 0, max |-> 0]

\* NodeBuilder: the fixed origin of the joint in its parent, the axis it turns
\* about and its range
Node(translation, rotation, axis, limits) ==
    [translation |-> translation, rotation |-> rotation, axis |-> axis, limits |-> limits]

\* the node list with every joint given the datasheet range of +/-170 degrees
WithRange(nodes) ==
    [i \in 1..Len(nodes) |->
        [nodes[i] EXCEPT !.limits = [has |-> TRUE, min |-> to_radians(Deg(-170)),
                                     max |-> to_radians(Deg(170))]]]

lr_mate_nodes ==
    LET p == XyzWpr_new(0, 0, 0, Deg(180), Deg(-90), Deg(0))
        basis == XyzWpr_to_isometry(p).rot
    IN  << Node(Vec(0, 0, 0),   Identity3, z_axis,         NoLimits),
           Node(Vec(50, 0, 0),  Identity3, y_axis,         NoLimits),
           Node(Vec(0, 0, 330), Identity3, VecNeg(y_axis), NoLimits),
           Node(Vec(0, 0, 35),  Identity3, VecNeg(x_axis), NoLimits),
           Node(Vec(335, 0, 0), basis,     y_axis,         NoLimits),
           Node(Vec(0, 0, 80),  Identity3, z_axis,         NoLimits) >>

fanuc_lr_mate_200id_ranged == WithRange(lr_mate_nodes)

\* the node list with the last offset along the parent's x axis
fanuc_lr_mate_200id_x80 ==
    [lr_mate_nodes EXCEPT ![6] = [lr_mate_nodes[6] EXCEPT !.translation = Vec(80, 0, 0)]]

fanuc_lr_mate_200id == lr_mate_nodes

\* Joint::set_joint_position_clamped: the position, brought into the joint's
\* range when the joint has one
Clamped(limits, position) ==
    IF ~limits.has THEN position
    ELSE IF position < limits.min THEN limits.min
    ELSE IF position > limits.max THEN limits.max
    ELSE position

\* a setter that moves each joint by the given amount from where it is
set_joint_positions_relative(chain, cur, rad_joints) ==
    [i \in 1..6 |-> Clamped(chain[i].limits, cur[i] + rad_joints[i])]

\* Chain::set_joint_positions_clamped: every joint takes its new position
set_joint_positions_clamped(chain, cur, rad_joints) ==
    [i \in 1..6 |-> Clamped(chain[i].limits, rad_joints[i])]

\* Joint::local_transform: the origin, then the turn about the axis
LocalTransform(node, position) ==
    IsoMul(Iso(node.rotation, node.translation),
           IsoRotation(VecScale(node.axis, position)))

\* Chain::update_transforms: the world transform of every node, root first
RECURSIVE WorldTransforms(_, _, _)
WorldTransforms(chain, pos, n) ==
    IF n = 0 THEN <<>>
    ELSE LET before == WorldTransforms(chain, pos, n - 1)
             parent == IF n = 1 THEN IsoIdentity ELSE before[n - 1]
         IN  Append(before, IsoMul(parent, LocalTransform(chain[n], pos[n])))

update_transforms(chain, pos) == WorldTransforms(chain, pos, Len(chain))

----------------------------------------------------------------------------
(* fanuc.rs, fanuc/crx.rs: the CRX series *)

\* the axis-angle vector (2.221441469079183, 0, 2.221441469079183): a half
\* turn about the bisector of world X and Z
EndAdjustComponent == RoundDiv(22214 * RadScale, 10000)
end_adjust == IsoRotation(Vec(EndAdjustComponent, 0, EndAdjustComponent))

\* column i (from 1) of a matrix of three rows
Column(m, i) == Vec(m[1][i], m[2][i], m[3][i])

\* the joint axes with J1 turning about -Z
crx_h_matrix_j1_down ==
    << <<  0, 0,  0, -1,  0, -1 >>,
       <<  0, 1, -1,  0, -1,  0 >>,
       << -1, 0,  0,  0,  0,  0 >> >>

\* the joint axes, one column per joint
crx_h_matrix ==
    << << 0, 0,  0, -1,  0, -1 >>,
       << 0, 1, -1,  0, -1,  0 >>,
       << 1, 0,  0,  0,  0,  0 >> >>

\* the link offsets with the J1-J2 offset on the positive side
crx_p_matrix_y_positive(z1, x1, x2, y1) ==
    << << 0, 0, 0,  0, x1, x2, 0 >>,
       << 0, 0, 0,  0, y1, 0,  0 >>,
       << 0, 0, z1, 0, 0,  0,  0 >> >>

\* the link offsets, one column per link: zeros but for p[(2, 2)] = z1,
\* p[(0, 4)] = x1, p[(1, 4)] = -y1 and p[(0, 5)] = x2 (indices from 0)
crx_p_matrix(z1, x1, x2, y1) ==
    << << 0, 0, 0,  0, x1,  x2, 0 >>,
       << 0, 0, 0,  0, -y1, 0,  0 >>,
       << 0, 0, z1, 0, 0,   0,  0 >> >>

\* Crx::new
Crx_new(z1, x1, x2, y1) ==
    LET p == crx_p_matrix(z1, x1, x2, y1)
        h == crx_h_matrix
    IN  [robot |-> [h |-> h, p |-> p],
         p_vectors |-> [i \in 1..7 |-> Column(p, i)],
         h_vectors |-> [i \in 1..6 |-> Column(h, i)]]

new_5ia == Crx_new(410, 430, 145, 130)
new_10ia == Crx_new(540, 540, 160, 150)

\* the robots that can be built
CrxModels == {"5ia", "10ia"}
CrxOf(name) == IF name = "5ia" THEN new_5ia ELSE new_10ia

\* helpers::fk_result: the solver's forward kinematics as one frame.  The
\* running frame starts at the first offset; each joint turns it about its
\* axis and the next offset is then added in the turned frame
RECURSIVE FkRun(_, _, _)
FkRun(robot, q, n) ==
    IF n = 0 THEN Iso(Identity3, Column(robot.p, 1))
    ELSE IsoMul(FkRun(robot, q, n - 1),
                IsoMul(IsoRotation(VecScale(Column(robot.h, n), q[n])),
                       Iso(Identity3, Column(robot.p, n + 1))))

fk_result(robot, q) == FkRun(robot, q, 6)

\* the link frame with the joint turned before the offset is applied
local_link_frame_turn_first(self, i, joint) ==
    IsoMul(IsoRotation(VecScale(self.h_vectors[i + 1], joint)),
           Iso(Identity3, self.p_vectors[i + 1]))

\* Crx::local_link_frame(i, joint), i counted from 0 as in the source
local_link_frame(self, i, joint) ==
    IsoFromParts(self.p_vectors[i + 1], RotationOf(VecScale(self.h_vectors[i + 1], joint)))

\* Crx::forward
forward(self, joints) ==
    LET rad == joints_to_rad(joints).val
    IN  IsoMul(fk_result(self.robot, rad), end_adjust)

\* the frames with the sixth chained from the fifth like the others
forward_with_links_chained(self, joints_deg) ==
    LET joints == joints_to_rad(joints_deg).val
        f1 == IsoRotation(VecScale(self.h_vectors[1], joints[1]))
        f2 == IsoMul(f1, local_link_frame(self, 1, joints[2]))
        f3 == IsoMul(f2, local_link_frame(self, 2, joints[3]))
        f4 == IsoMul(f3, local_link_frame(self, 3, joints[4]))
        f5 == IsoMul(f4, local_link_frame(self, 4, joints[5]))
        f6 == IsoMul(f5, local_link_frame(self, 5, joints[6]))
    IN  <<f1, f2, f3, f4, f5, f6>>

\* Crx::forward_with_links
forward_with_links(self, joints_deg) ==
    LET joints == joints_to_rad(joints_deg).val
        f1 == IsoRotation(VecScale(self.h_vectors[1], joints[1]))
        f2 == IsoMul(f1, local_link_frame(self, 1, joints[2]))
        f3 == IsoMul(f2, local_link_frame(self, 2, joints[3]))
        f4 == IsoMul(f3, local_link_frame(self, 3, joints[4]))
        f5 == IsoMul(f4, local_link_frame(self, 4, joints[5]))
        f6 == IsoMul(fk_result(self.robot, joints), end_adjust)
    IN  <<f1, f2, f3, f4, f5, f6>>

\* helpers::iso_to_parts: the rotation matrix and the translation of a frame
iso_to_parts(iso) == <<iso.rot, iso.trans>>

----------------------------------------------------------------------------
(* Inputs *)

\* joint angles run from a quarter turn back to MaxTurn quarter turns forward
MaxTurn == 2
\* conversion inputs reach MaxStep steps of AngleStep units either way
MaxStep == 2
AngleStep == 287
\* slices are up to MaxLen long
MaxLen == 7
\* the solver returns up to MaxSolutions candidates
MaxSolutions == 2
\* approx_eq is asked with epsilon up to MaxEps
MaxEps == 1

\* the joints moved together in one input vector
MovedPairs == {<<2, 3>>, <<1, 5>>, <<4, 6>>}

VectorsOver(angles) ==
    UNION {{[Zero6 EXCEPT ![pr[1]] = a, ![pr[2]] = b] : a \in angles, b \in angles} :
           pr \in MovedPairs}

QuarterAngles == {Deg(90 * k) : k \in -1..MaxTurn}
\* controller joint vectors for the kinematics
JointVectors == VectorsOver(QuarterAngles)

ConvAngles == {k * AngleStep : k \in -MaxStep..MaxStep}
\* controller joint vectors for the conversions
ConvVectors == VectorsOver(ConvAngles)

\* slices that are not six long
WrongLength(angles) ==
    {[i \in 1..n |-> a] : n \in (0..MaxLen) \ {6}, a \in angles}

Running == ret.kind # "panic"
\* a call that asks nothing of the solver and prints nothing
Quiet == solverOut' = <<>> /\ printed' = <<>>

----------------------------------------------------------------------------
(* The joint conversions called on their own *)

JointsToRad(joints) ==
    /\ Running
    /\ op' = "joints_to_rad"
    /\ arg' = joints
    /\ ret' = joints_to_rad(joints)
    /\ Quiet
    /\ UNCHANGED <<positions, crx>>

FanucJointsToRad(joints) ==
    /\ Running
    /\ op' = "fanuc_joints_to_rad"
    /\ arg' = joints
    /\ ret' = fanuc_joints_to_rad(joints)
    /\ Quiet
    /\ UNCHANGED <<positions, crx>>

RadToJoints(rad_joints) ==
    /\ Running
    /\ op' = "rad_to_joints"
    /\ arg' = rad_joints
    /\ ret' = rad_to_joints(rad_joints)
    /\ Quiet
    /\ UNCHANGED <<positions, crx>>

ConvSlices == ConvVectors \cup WrongLength({0, AngleStep})
\* kinematic vectors: the conversions of the controller vectors
RadSlices == {joints_to_rad(j).val : j \in ConvVectors} \cup WrongLength({0, to_radians(AngleStep)})

Init ==
    /\ positions = Zero6
    /\ op = "none"
    /\ arg = <<>>
    /\ ret = Ok(Unit)
    /\ crx \in CrxModels
    /\ solverOut = <<>>
    /\ printed = <<>>

NextConv ==
    \/ \E j \in ConvSlices : JointsToRad(j)
    \/ \E j \in ConvSlices : FanucJointsToRad(j)
    \/ \E r \in RadSlices : RadToJoints(r)

SpecConv == Init /\ [][NextConv]_vars

----------------------------------------------------------------------------
(* robot.rs: FanucLrMate200id *)

\* FanucLrMate200id::set_joints
SetJoints(joints) ==
    LET rad_joints == fanuc_joints_to_rad(joints)
    IN  /\ Running
        /\ op' = "set_joints"
        /\ arg' = joints
        /\ IF rad_joints.kind = "panic"
           THEN /\ ret' = Panic
                /\ UNCHANGED positions
           ELSE /\ ret' = Ok(Unit)
                /\ positions' = set_joint_positions_clamped(fanuc_lr_mate_200id, positions,
                                                            rad_joints.val)
        /\ Quiet
        /\ UNCHANGED crx

\* FanucLrMate200id::poses
Poses ==
    LET transforms == update_transforms(fanuc_lr_mate_200id, positions)
    IN  /\ Running
        /\ op' = "poses"
        /\ arg' = <<>>
        /\ ret' = Ok([i \in 1..Len(transforms) |-> XyzWpr_from_isometry(transforms[i])])
        /\ Quiet
    /\ UNCHANGED <<positions, crx>>

\* FanucLrMate200id::end_pose
EndPose ==
    LET transforms == update_transforms(fanuc_lr_mate_200id, positions)
        last == transforms[Len(transforms)]
    IN  /\ Running
        /\ op' = "end_pose"
        /\ arg' = <<>>
        /\ ret' = Ok(XyzWpr_from_isometry(last))
        /\ Quiet
    /\ UNCHANGED <<positions, crx>>

\* the poses a caller compares an end pose with: the home position and points
\* a millimetre off it, under angle triples that repeat rotations
ExpectedPoses ==
    {XyzWpr_new(465 + dx, 0, 365, Deg(w), Deg(p), Deg(r)) :
        dx \in {0, 1}, w \in {-180, 0, 90, 180}, p \in {-90, 0}, r \in {0, 90}}

\* transform.approx_eq(&expected, epsilon) on the pose end_pose returned
ApproxEq(expected, epsilon) ==
    /\ Running
    /\ op = "end_pose"
    /\ op' = "approx_eq"
    /\ arg' = <<ret.val, expected, epsilon>>
    /\ ret' = Ok(XyzWpr_approx_eq(ret.val, expected, epsilon))
    /\ Quiet
    /\ UNCHANGED <<positions, crx>>

JointSlices == JointVectors \cup WrongLength({Deg(0), Deg(90)})

Next ==
    \/ \E j \in JointSlices : SetJoints(j)
    \/ Poses
    \/ EndPose
    \/ \E e \in ExpectedPoses, eps \in 0..MaxEps : ApproxEq(e, eps)

Spec == Init /\ [][Next]_vars

----------------------------------------------------------------------------
(* fanuc/crx.rs: Crx *)

\* Crx::forward; the argument is an array of six
Forward(joints) ==
    /\ Running
    /\ op' = "forward"
    /\ arg' = joints
    /\ ret' = Ok(forward(CrxOf(crx), joints))
    /\ Quiet
    /\ UNCHANGED <<positions, crx>>

\* Crx::forward_with_links
ForwardWithLinks(joints) ==
    /\ Running
    /\ op' = "forward_with_links"
    /\ arg' = joints
    /\ ret' = Ok(forward_with_links(CrxOf(crx), joints))
    /\ Quiet
    /\ UNCHANGED <<positions, crx>>

\* the lines Crx::ik prints for the candidates, one per candidate
SolutionLines(solutions) ==
    [i \in 1..Len(solutions) |->
        IF solutions[i][2] THEN <<"LS solution", solutions[i][1]>>
        ELSE <<"Non-LS solution", solutions[i][1]>>]

\* Crx::ik handing the target to the solver as it came, adjustment included
Ik_unadjusted(solutions) ==
    LET self == CrxOf(crx)
        fk0 == fk_result(self.robot, Zero6)
        target == ret.val
        parts == iso_to_parts(target)
    IN  /\ Running
        /\ op = "forward"
        /\ op' = "ik"
        /\ arg' = ret.val
        /\ solverOut' = [r |-> parts[1], t |-> parts[2], solutions |-> solutions]
        /\ printed' = << <<"Reference", fk0>>, <<"Target", target>>, <<"---">>,
                         <<"Rotation", parts[1]>>, <<"Translation", parts[2]>>,
                         <<"Solutions", solutions>> >> \o SolutionLines(solutions)
        /\ ret' = Ok(Unit)
        /\ UNCHANGED <<positions, crx>>

\* Crx::ik(target), the solver answering with `solutions`: a list of pairs
\* (kinematic joint vector, is_ls).  The target is the frame forward returned
Ik(solutions) ==
    LET self == CrxOf(crx)
        fk0 == fk_result(self.robot, Zero6)
        target == IsoMul(ret.val, IsoInverse(end_adjust))
        parts == iso_to_parts(target)
    IN  /\ Running
        /\ op = "forward"
        /\ op' = "ik"
        /\ arg' = ret.val
        /\ solverOut' = [r |-> parts[1], t |-> parts[2], solutions |-> solutions]
        /\ printed' = << <<"Reference", fk0>>, <<"Target", target>>, <<"---">>,
                         <<"Rotation", parts[1]>>, <<"Translation", parts[2]>>,
                         <<"Solutions", solutions>> >> \o SolutionLines(solutions)
        /\ ret' = Ok(Unit)
        /\ UNCHANGED <<positions, crx>>

\* what the solver may answer with: kinematic joint vectors, tagged
Candidates ==
    { <<joints_to_rad(<<Deg(0), Deg(90), Deg(-90), Deg(0), Deg(90), Deg(0)>>).val, FALSE>>,
      <<joints_to_rad(<<Deg(90), Deg(180), Deg(90), Deg(0), Deg(0), Deg(-90)>>).val, TRUE>> }
SolverAnswers == UNION {[1..k -> Candidates] : k \in 0..MaxSolutions}

NextCrx ==
    \/ \E j \in JointVectors : Forward(j)
    \/ \E j \in JointVectors : ForwardWithLinks(j)
    \/ \E sols \in SolverAnswers : Ik(sols)

SpecCrx == Init /\ [][NextCrx]_vars

----------------------------------------------------------------------------
(* the LR Mate and the CRX driven with the same joint vectors *)

\* controller vectors that turn the base and the wrist
BaseWristVectors == {[Zero6 EXCEPT ![1] = a, ![5] = b] : a \in QuarterAngles, b \in QuarterAngles}

NextBoth ==
    \/ \E j \in BaseWristVectors : SetJoints(j)
    \/ EndPose
    \/ \E j \in BaseWristVectors : Forward(j)

SpecBoth == Init /\ [][NextBoth]_vars

----------------------------------------------------------------------------
(* Properties *)

\* what a round trip through the conversions may lose: the rounding of the
\* radian value, in degree units, and the rounding of the conversion back
ConvTol == 1 + (180 * PiDen * DegScale) \div (PiNum * RadScale)

Within(a, b, tol) == \A i \in 1..6 : Abs(a[i] - b[i]) <= tol

\* C1: a controller vector of six converted by joints_to_rad and the result
\* converted back by rad_to_joints is the vector again, in every element and
\* whatever J2 is, to within the tolerance of the unit conversions.
C1_RoundTrip ==
    [][(/\ op = "joints_to_rad" /\ Len(arg) = 6
        /\ op' = "rad_to_joints" /\ arg' = ret.val)
       => (ret'.kind = "ok" /\ Len(ret'.val) = 6 /\ Within(ret'.val, arg, ConvTol))]_vars

\* a round trip of a vector with J2 and J3 both away from zero has happened
C1_Witness ==
    /\ op = "rad_to_joints"
    /\ ret.kind = "ok"
    /\ \E x \in ConvVectors :
          /\ x[2] # 0 /\ x[3] # 0
          /\ arg = joints_to_rad(x).val
          /\ Within(ret.val, x, ConvTol)

\* C2: joints_to_rad and fanuc_joints_to_rad of a controller vector of six
\* return the converted J3 plus the converted J2 as the third element and the
\* bare conversion of the same-index input in the other five.
C2_Coupling ==
    (op \in {"joints_to_rad", "fanuc_joints_to_rad"} /\ Len(arg) = 6)
    => /\ ret.kind = "ok"
       /\ Len(ret.val) = 6
       /\ ret.val[3] = to_radians(arg[3]) + to_radians(arg[2])
       /\ \A i \in {1, 2, 4, 5, 6} : ret.val[i] = to_radians(arg[i])

\* joints_to_rad has converted a vector in which J2 and J3 are both set
C2_Witness ==
    /\ op = "joints_to_rad"
    /\ Len(arg) = 6
    /\ arg[2] # 0 /\ arg[3] # 0
    /\ ret.val[2] # 0
    /\ ret.val[3] # to_radians(arg[3])

\* the calls that take a slice of joint angles
SliceCalls == {"joints_to_rad", "fanuc_joints_to_rad", "rad_to_joints", "set_joints"}

\* C3: a joint vector whose length is not six, given to a conversion or to
\* set_joints, is rejected with an error value: it is neither completed with
\* zeros and used, nor does it end the program.
C3_WrongLengthRejected ==
    (op \in SliceCalls /\ Len(arg) # 6) => ret.kind = "err"

\* the pose end_pose reports when the chain holds the positions pos
EndPoseOf(pos) ==
    LET transforms == update_transforms(fanuc_lr_mate_200id, pos)
    IN  XyzWpr_from_isometry(transforms[Len(transforms)])

C5_LastFrameIsForward ==
    op = "forward_with_links"
    => /\ Len(ret.val) = 6
       /\ ret.val[6] = forward(CrxOf(crx), arg)

\* forward_with_links has run on a vector that moves the wrist
C5_Witness ==
    /\ op = "forward_with_links"
    /\ arg[6] # 0
    /\ ret.val[6] # ret.val[5]

\* C6: set_joints applies the converted angles as they are, also outside the
\* mechanical range of the joints: nothing is clamped.
C6_NotClamped ==
    (op = "set_joints" /\ ret.kind = "ok" /\ Len(arg) = 6)
    => positions = fanuc_joints_to_rad(arg).val

\* J1 has been set to 180 degrees, beyond its range of 170, and is held so
C6_Witness ==
    /\ op = "set_joints"
    /\ Len(arg) = 6
    /\ arg[1] = Deg(180)
    /\ positions[1] = to_radians(Deg(180))

\* C7: ik returns one solution per candidate of the solver, in the solver's
\* order: the candidate's joints through rad_to_joints, and its flag.
C7_SolutionsReturned ==
    op = "ik"
    => ret.val = [i \in 1..Len(solverOut.solutions) |->
                    [joints |-> rad_to_joints(solverOut.solutions[i][1]).val,
                     is_ls |-> solverOut.solutions[i][2]]]

SameRotation(a, b) == XyzWpr_to_isometry(a).rot = XyzWpr_to_isometry(b).rot
SamePosition(a, b) == a.x = b.x /\ a.y = b.y /\ a.z = b.z
Apart(a, b, epsilon) ==
    Distance(Vec(a.x, a.y, a.z), Vec(b.x, b.y, b.z)) > epsilon

\* C8: approx_eq compares the rotations and positions the poses stand for:
\* poses at one position whose angle triples encode one rotation are equal,
\* and poses of different rotations, or further apart than epsilon, are not.
C8_ApproxEqByRotation ==
    op = "approx_eq"
    => /\ (SameRotation(arg[1], arg[2]) /\ SamePosition(arg[1], arg[2])) => ret.val
       /\ (~SameRotation(arg[1], arg[2]) \/ Apart(arg[1], arg[2], arg[3])) => ~ret.val

\* two poses of different angle triples have compared equal
C8_Witness ==
    /\ op = "approx_eq"
    /\ ret.val
    /\ <<arg[1].w, arg[1].p, arg[1].r>> # <<arg[2].w, arg[2].p, arg[2].r>>

\* C9: with all six joints set to zero, end_pose reports the flange at
\* (465, 0, 365) with the orientation of (w, p, r) = (180, -90, 0).
C9_Home ==
    [][(op = "set_joints" /\ arg = Zero6 /\ op' = "end_pose")
       => /\ <<ret'.val.x, ret'.val.y, ret'.val.z>> = <<465, 0, 365>>
          /\ SameRotation(ret'.val, XyzWpr_new(0, 0, 0, Deg(180), Deg(-90), Deg(0)))]_vars

\* end_pose has reported the home position
C9_Witness ==
    /\ op = "end_pose"
    /\ positions = Zero6
    /\ ret.val.x = 465 /\ ret.val.z = 365

\* the link lengths (z1, x1, x2, y1) the robots are built with
LinkLengths(name) ==
    IF name = "5ia" THEN [z1 |-> 410, x1 |-> 430, x2 |-> 145, y1 |-> 130]
    ELSE [z1 |-> 540, x1 |-> 540, x2 |-> 160, y1 |-> 150]

\* flange X along world Z, flange Y along world -Y, flange Z along world X:
\* the columns are the flange axes
FlangeAtZero == <<<<0, 0, 1>>, <<0, -1, 0>>, <<1, 0, 0>>>>

\* C10: forward at all-zero joints puts the flange at (x1 + x2, -y1, z1) with
\* the orientation of end_adjust; for the CRX-5iA at (575, -130, 410).
C10_ZeroPosition ==
    (op = "forward" /\ arg = Zero6)
    => LET d == LinkLengths(crx)
       IN  /\ ret.val.trans = <<d.x1 + d.x2, -d.y1, d.z1>>
           /\ ret.val.rot = FlangeAtZero
           /\ ret.val.rot = end_adjust.rot
           /\ crx = "5ia" => ret.val.trans = <<575, -130, 410>>

\* forward has run at zero on the CRX-5iA
C10_Witness ==
    /\ op = "forward"
    /\ arg = Zero6
    /\ crx = "5ia"
    /\ ret.val.trans = <<575, -130, 410>>


\* the controller vector with J2 alone at the angle a
OnlyJ2(a) == [Zero6 EXCEPT ![2] = a]

\* C11: with the other controller joints at zero, whatever J2 is (J3 displayed
\* as 0), forward returns the orientation of the zero position; the flange
\* only moves, and its y stays -y1.
C11_OnlyJ2KeepsOrientation ==
    (op = "forward" /\ arg = OnlyJ2(arg[2]))
    => LET zero == forward(CrxOf(crx), Zero6)
       IN  /\ ret.val.rot = zero.rot
           /\ ret.val.rot = FlangeAtZero
           /\ ret.val.trans[2] = -LinkLengths(crx).y1
           /\ arg[2] % Deg(360) # 0 => ret.val.trans # zero.trans

\* forward has run with J2 alone at 90 degrees: the upper arm lies along X
C11_Witness ==
    /\ op = "forward"
    /\ arg = OnlyJ2(Deg(90))
    /\ ret.val.rot = FlangeAtZero
    /\ ret.val.trans = <<LinkLengths(crx).x1 + LinkLengths(crx).x2 + LinkLengths(crx).z1,
                         -LinkLengths(crx).y1, 0>>


\* the controller vector with J1 alone at the angle a
OnlyJ1(a) == [Zero6 EXCEPT ![1] = a]

\* the point v turned about the world Z axis by a
AboutZ(a, v) == MatVec(RotationOf(Vec(0, 0, to_radians(a))), v)

\* the pose `pose` is the pose `home` turned about the world Z axis by a: z is
\* kept, the position turns in x and y, the orientation is that of home's
\* angles with the rotation about Z advanced by a, and in the angle triple
\* reported at the pitch of home, where W and R turn about the same axis
\* and R is held, W has advanced by a with P and R as they were
TurnedAboutZ(pose, home, a) ==
    /\ pose.z = home.z
    /\ <<pose.x, pose.y, pose.z>> = AboutZ(a, <<home.x, home.y, home.z>>)
    /\ SameRotation(pose, [home EXCEPT !.r = home.r + a])
    /\ pose.p = home.p
    /\ pose.r = home.r
    /\ (pose.w - home.w - a) % Deg(360) = 0

\* C12: from the all-zero configuration, J1 alone at the angle a keeps the
\* flange z, turns the home position about the world Z axis by a in x and y,
\* and turns the orientation by a about Z with the other two angles kept,
\* for the LR Mate (set_joints, end_pose) and for Crx::forward.
C12_OnlyJ1Turns ==
    [][/\ (op = "set_joints" /\ arg = OnlyJ1(arg[1]) /\ op' = "end_pose")
          => TurnedAboutZ(ret'.val, EndPoseOf(Zero6), arg[1])
       /\ (op' = "forward" /\ arg' = OnlyJ1(arg'[1]))
          => TurnedAboutZ(XyzWpr_from_isometry(ret'.val),
                          XyzWpr_from_isometry(forward(CrxOf(crx), Zero6)), arg'[1])]_vars

\* the LR Mate holds J1 alone at 90 degrees and forward has run on the same
\* vector: the CRX flange is a quarter turn from (x1 + x2, -y1, z1)
C12_Witness ==
    /\ op = "forward"
    /\ arg = OnlyJ1(Deg(90))
    /\ positions = fanuc_joints_to_rad(OnlyJ1(Deg(90))).val
    /\ EndPoseOf(positions).y = 465
    /\ ret.val.trans = <<LinkLengths(crx).y1, LinkLengths(crx).x1 + LinkLengths(crx).x2,
                         LinkLengths(crx).z1>>


\* the running composition: the identity, then for each joint in chain order
\* the running frame composed with the joint's offset and with the rotation
\* about the joint's axis by its angle; joint k's offset and axis are entries
\* k - 1 of p_vectors and h_vectors in the source
RECURSIVE RunningFrame(_, _, _)
RunningFrame(self, q, k) ==
    IF k = 0 THEN IsoIdentity
    ELSE IsoMul(RunningFrame(self, q, k - 1),
                IsoMul(Iso(Identity3, self.p_vectors[k]),
                       IsoRotation(VecScale(self.h_vectors[k], q[k]))))

\* C13: the frames of forward_with_links are the running composition: frame k
\* for k = 1..5 is the running frame after joint k, and the flange frame,
\* frame 6, is frame 5 composed with the sixth offset, the sixth rotation and
\* the end-effector adjustment, so the chain of links and the solver's
\* forward kinematics agree on the flange.
C13_RunningComposition ==
    op = "forward_with_links"
    => LET self == CrxOf(crx)
           q == joints_to_rad(arg).val
           sixth == IsoMul(Iso(Identity3, self.p_vectors[6]),
                           IsoRotation(VecScale(self.h_vectors[6], q[6])))
       IN  /\ ret.val[1] = IsoRotation(VecScale(self.h_vectors[1], q[1]))
           /\ \A k \in 1..5 : ret.val[k] = RunningFrame(self, q, k)
           /\ ret.val[6] = IsoMul(IsoMul(ret.val[5], sixth), end_adjust)
           /\ ret.val[6] = IsoMul(fk_result(self.robot, q), end_adjust)

\* forward_with_links has run with J2 and J3 both at 90 degrees: the third
\* frame sits at the end of the upper arm, which lies along X
C13_Witness ==
    /\ op = "forward_with_links"
    /\ arg[2] = Deg(90) /\ arg[3] = Deg(90)
    /\ ret.val[2].trans = <<0, 0, 0>>
    /\ ret.val[3].trans = <<LinkLengths(crx).z1, 0, 0>>
    /\ ret.val[6].trans # ret.val[3].trans


\* C14: ik composes its target with the inverse of end_adjust on the right
\* before it calls the solver, which undoes the adjustment of forward: when
\* the target is forward(j), the rotation and translation the solver is given
\* are those of the solver's forward kinematics of joints_to_rad(j).
C14_IkUndoesAdjustment ==
    [][(op = "forward" /\ op' = "ik")
       => LET fk == fk_result(CrxOf(crx).robot, joints_to_rad(arg).val)
          IN  /\ arg' = forward(CrxOf(crx), arg)
              /\ arg' = IsoMul(fk, end_adjust)
              /\ solverOut'.r = fk.rot
              /\ solverOut'.t = fk.trans
              /\ IsoMul(Iso(solverOut'.r, solverOut'.t), end_adjust) = arg']_vars

\* ik has been given the flange frame of a bent arm: the solver was asked for
\* an orientation other than the flange's, at the flange's position
C14_Witness ==
    /\ op = "ik"
    /\ arg.rot # FlangeAtZero
    /\ solverOut.r # arg.rot
    /\ solverOut.t = arg.trans
    /\ IsoMul(Iso(solverOut.r, solverOut.t), end_adjust) = arg

====
